---------------------------- MODULE Spec2Model ----------------------------
(***************************************************************************)
(* Cibus: layout parsing, fixed-length record decoding, column profiling   *)
(* and synthetic data generation.                                          *)
(*                                                                         *)
(* Text is modelled as a sequence of one-character strings, so that        *)
(* splitting, slicing, trimming, padding and parsing are computed.  An     *)
(* insertion-ordered Python dict is a sequence of <<key, value>> pairs     *)
(* with distinct keys; a dict with fixed string keys (the statistics of a  *)
(* column, the generation guidelines) is a record whose DOMAIN tells which *)
(* keys are present.                                                       *)
(***************************************************************************)
EXTENDS Integers, Sequences, FiniteSets, TLC

VARIABLES
    pc,                \* position of the running operation
    sheet_rows,        \* rows of the active worksheet, header row first
    file_state,        \* "ok", "missing" or "corrupt": the layout file
    layout,            \* list of <<field name, field length>>
    data_content,      \* the whole fixed-length data text
    parsed_data,       \* list of decoded rows (ordered dicts)
    profile,           \* ordered dict: column name -> statistics
    volume,            \* number of records asked of the generator
    generated_data,    \* records generated so far in this invocation
    sequence_counters, \* ordered dict: SEQUENCE column -> counter
    enum_values,       \* ordered dict: ENUM column -> list of values
    api_key,           \* whether GEMINI_API_KEY is set
    service,           \* what the external service does when it is called
    column_name,       \* argument of infer_data_pattern
    column_profile,    \* argument of infer_data_pattern
    inferred_pattern,  \* what infer_data_pattern returned
    inferred_profile,  \* ordered dict: column name -> annotated statistics
    database           \* the profile saved under the layout name, if any

\* The variables of the classifier and of the persistence layer.
classifier_vars ==
    <<api_key, service, column_name, column_profile, inferred_pattern,
      inferred_profile, database>>

vars == <<pc, sheet_rows, file_state, layout, data_content, parsed_data,
          profile, volume, generated_data, sequence_counters, enum_values,
          api_key, service, column_name, column_profile, inferred_pattern,
          inferred_profile, database>>

-----------------------------------------------------------------------------
(* Bounds of the model.                                                    *)

MaxRows == 2
MaxFields == 2
MaxText == 5
MaxCols == 2
MaxVolume == 2
\* The records of a run of SEQUENCE columns.
MaxCount == 11

-----------------------------------------------------------------------------
(* Generic helpers: integers, sequences, ordered dicts.                    *)

Max(a, b) == IF a >= b THEN a ELSE b
Min(a, b) == IF a <= b THEN a ELSE b
Abs(a) == IF a < 0 THEN -a ELSE a

\* All sequences over S of length at most n.
SeqsUpTo(S, n) == UNION {[1..k -> S] : k \in 0..n}

Range(s) == {s[i] : i \in DOMAIN s}

RECURSIVE SumSeq(_)
SumSeq(s) == IF s = <<>> THEN 0 ELSE Head(s) + SumSeq(Tail(s))

\* dict.keys(), dict key test, dict.get(k, default), d[k] = v.
DictKeys(d) == [i \in DOMAIN d |-> d[i][1]]
DictValues(d) == [i \in DOMAIN d |-> d[i][2]]
DictHas(d, k) == \E i \in DOMAIN d : d[i][1] = k
DictGet(d, k, default) ==
    IF DictHas(d, k) THEN d[CHOOSE i \in DOMAIN d : d[i][1] = k][2] ELSE default
DictPut(d, k, v) ==
    IF DictHas(d, k)
    THEN [i \in DOMAIN d |-> IF d[i][1] = k THEN <<k, v>> ELSE d[i]]
    ELSE Append(d, <<k, v>>)

NoDict == [x \in {} |-> 0]   \* the empty dict {} of a .get default

\* stats.get(key, default) on a dict with fixed string keys.
Get(d, k, default) == IF k \in DOMAIN d THEN d[k] ELSE default

-----------------------------------------------------------------------------
(* Python string operations.                                               *)

Whitespace == {" "}
DigitChars == <<"0", "1", "2", "3", "4", "5", "6", "7", "8", "9">>
IsDigit(c) == \E i \in DOMAIN DigitChars : DigitChars[i] = c
DigitValue(c) == (CHOOSE i \in DOMAIN DigitChars : DigitChars[i] = c) - 1

\* s.strip(): leading and trailing whitespace removed.
RECURSIVE LStrip(_)
LStrip(s) ==
    IF s # <<>> /\ Head(s) \in Whitespace THEN LStrip(Tail(s)) ELSE s
RECURSIVE RStrip(_)
RStrip(s) ==
    IF s # <<>> /\ s[Len(s)] \in Whitespace
    THEN RStrip(SubSeq(s, 1, Len(s) - 1))
    ELSE s
Strip(s) == RStrip(LStrip(s))

\* s[start:stop] with Python's treatment of negative and out-of-range indices.
SliceIndex(i, n) == IF i < 0 THEN Max(i + n, 0) ELSE Min(i, n)
PySlice(s, start, stop) ==
    LET lo == SliceIndex(start, Len(s))
        hi == SliceIndex(stop, Len(s))
    IN  IF lo >= hi THEN <<>> ELSE SubSeq(s, lo + 1, hi)

\* s.split('\n'): the pieces between line breaks (one more than the breaks).
RECURSIVE SplitLines(_, _)
SplitLines(s, cur) ==
    IF s = <<>> THEN <<cur>>
    ELSE IF Head(s) = "\n" THEN <<cur>> \o SplitLines(Tail(s), <<>>)
    ELSE SplitLines(Tail(s), Append(cur, Head(s)))

\* str(n) for a natural number n.
RECURSIVE NatStr(_)
NatStr(n) ==
    IF n < 10 THEN <<DigitChars[n + 1]>>
    ELSE Append(NatStr(n \div 10), DigitChars[(n % 10) + 1])
\* str(n) for an integer n.
IntStr(n) == IF n < 0 THEN <<"-">> \o NatStr(-n) ELSE NatStr(n)

\* Value of a string of decimal digits.
RECURSIVE DigitsValue(_)
DigitsValue(s) ==
    IF s = <<>> THEN 0
    ELSE 10 * DigitsValue(SubSeq(s, 1, Len(s) - 1)) + DigitValue(s[Len(s)])
AllDigits(s) == \A i \in DOMAIN s : IsDigit(s[i])

\* int(text) for a string: surrounding whitespace, an optional sign, digits.
\* ok = FALSE stands for ValueError.
PyInt(text) ==
    LET t == Strip(text)
        signed == t # <<>> /\ Head(t) \in {"-", "+"}
        body == IF signed THEN Tail(t) ELSE t
    IN  IF body # <<>> /\ AllDigits(body)
        THEN [ok |-> TRUE,
              v |-> IF signed /\ Head(t) = "-" THEN -DigitsValue(body)
                    ELSE DigitsValue(body)]
        ELSE [ok |-> FALSE, v |-> 0]

\* A number that need not be whole (a float) is kept in hundredths: 150 is 1.5.
\* int(x): truncation toward zero.
IntOf(x) == IF x >= 0 THEN x \div 100 ELSE -((-x) \div 100)

\* s.zfill(width): zeros inserted after the sign, nothing removed.
Zeros(n) == [i \in 1..n |-> "0"]
Zfill(s, width) ==
    IF Len(s) >= width THEN s
    ELSE IF s # <<>> /\ Head(s) \in {"-", "+"}
    THEN <<Head(s)>> \o Zeros(width - Len(s)) \o Tail(s)
    ELSE Zeros(width - Len(s)) \o s

-----------------------------------------------------------------------------
(* layout_parser.py                                                        *)

\* Cell values of the worksheet: None, a string, a number (in hundredths).
CellNone == [t |-> "none"]
CellStr(s) == [t |-> "str", s |-> s]
CellNum(x) == [t |-> "num", x |-> x]

\* COBOL_LENGTH_PATTERN.search(s) for r'\((.+)\)': the leftmost "(" that has
\* a ")" at least two places after it, and greedily the last such ")".
\* The result is the captured group, or ok = FALSE when there is no match.
CobolLengthMatch(s) ==
    LET opens == {i \in DOMAIN s :
                    s[i] = "(" /\ \E j \in DOMAIN s : j >= i + 2 /\ s[j] = ")"}
    IN  IF opens = {} THEN [ok |-> FALSE, group |-> <<>>]
        ELSE LET i == CHOOSE a \in opens : \A b \in opens : a <= b
                 closes == {j \in DOMAIN s : j >= i + 2 /\ s[j] = ")"}
                 j == CHOOSE a \in closes : \A b \in closes : a >= b
             IN  [ok |-> TRUE, group |-> SubSeq(s, i + 1, j - 1)]

\* layout.append((str(field_name), length_int)), as the list of entries the
\* row adds to the layout.
RowAppend(name, length_int) == <<<<name, length_int>>>>

LayoutOfRow(row) ==
    LET field_name == row[1]
        field_length == row[2]
    IN  IF field_name.t = "none" THEN <<>>
        ELSE IF field_length.t = "str"
        THEN LET match == CobolLengthMatch(field_length.s)
             IN  IF match.ok
                 THEN LET n == PyInt(match.group)
                      IN  IF n.ok THEN RowAppend(field_name.s, n.v) ELSE <<>>
                 ELSE <<>>
        ELSE IF field_length.t = "num"
        THEN RowAppend(field_name.s, IntOf(field_length.x))
        ELSE <<>>

\* field_length = row[1]: IndexError when the worksheet has one column only
\* (iter_rows yields tuples as wide as the sheet).
RowTooShort(row) == Len(row) < 2

\* A faulty variant of LayoutOfRows: a skipped row ends the loop (break).
RECURSIVE LayoutOfRowsBreak(_)
LayoutOfRowsBreak(rows) ==
    IF rows = <<>> THEN <<>>
    ELSE IF LayoutOfRow(Head(rows)) = <<>> THEN <<>>
    ELSE LayoutOfRow(Head(rows)) \o LayoutOfRowsBreak(Tail(rows))

RECURSIVE LayoutOfRows(_)
LayoutOfRows(rows) ==
    IF rows = <<>> THEN <<>>
    ELSE LayoutOfRow(Head(rows)) \o LayoutOfRows(Tail(rows))

\* iter_rows(min_row=2): the rows after the header row.
RowsAfterHeader(sheet) == IF sheet = <<>> THEN <<>> ELSE Tail(sheet)

ParseXlsLayoutRows(sheet) == LayoutOfRows(RowsAfterHeader(sheet))

\* Whether the loop over the rows raises IndexError.
ParseXlsLayoutRaises(sheet) ==
    \E i \in DOMAIN RowsAfterHeader(sheet) : RowTooShort(RowsAfterHeader(sheet)[i])

-----------------------------------------------------------------------------
(* data_parser.py                                                          *)

\* record_length = sum(length for _, length in layout)
RecordLength(lay) == SumSeq([i \in DOMAIN lay |-> lay[i][2]])

\* lines = [line for line in data_content.split('\n') if line.strip()]
RECURSIVE SelectNonBlank(_)
SelectNonBlank(ls) ==
    IF ls = <<>> THEN <<>>
    ELSE IF Strip(Head(ls)) # <<>>
    THEN <<Head(ls)>> \o SelectNonBlank(Tail(ls))
    ELSE SelectNonBlank(Tail(ls))
NonBlankLines(text) == SelectNonBlank(SplitLines(text, <<>>))

\* current_pos += field_length
NextPos(current_pos, field_length) == current_pos + field_length

\* field_value = line[current_pos : current_pos + field_length].strip()
FieldValue(line, current_pos, field_length) ==
    Strip(PySlice(line, current_pos, current_pos + field_length))

\* The loop over the layout for one line: row[field_name] = field_value.
RECURSIVE DecodeFields(_, _, _, _)
DecodeFields(line, lay, current_pos, row) ==
    IF lay = <<>> THEN row
    ELSE LET field_name == Head(lay)[1]
             field_length == Head(lay)[2]
         IN  DecodeFields(line, Tail(lay),
                          NextPos(current_pos, field_length),
                          DictPut(row, field_name,
                                  FieldValue(line, current_pos, field_length)))
DecodeRow(line, lay) == DecodeFields(line, lay, 0, <<>>)

\* A faulty variant of DecodeLines: a line of another length ends the loop (break).
RECURSIVE DecodeLinesBreak(_, _)
DecodeLinesBreak(ls, lay) ==
    IF ls = <<>> THEN <<>>
    ELSE IF Len(Head(ls)) # RecordLength(lay) THEN <<>>
    ELSE <<DecodeRow(Head(ls), lay)>> \o DecodeLinesBreak(Tail(ls), lay)

\* The loop over the lines: a line of another length is skipped (continue).
RECURSIVE DecodeLines(_, _)
DecodeLines(ls, lay) ==
    IF ls = <<>> THEN <<>>
    ELSE IF Len(Head(ls)) # RecordLength(lay)
    THEN DecodeLines(Tail(ls), lay)
    ELSE <<DecodeRow(Head(ls), lay)>> \o DecodeLines(Tail(ls), lay)

ParseFixedLengthData(text, lay) == DecodeLines(NonBlankLines(text), lay)

-----------------------------------------------------------------------------
(* profiler_utilities.py                                                   *)

\* df.columns: the keys of the records in order of first appearance.
RECURSIVE AddKeys(_, _)
AddKeys(cols, keys) ==
    IF keys = <<>> THEN cols
    ELSE AddKeys(IF Head(keys) \in Range(cols) THEN cols
                 ELSE Append(cols, Head(keys)), Tail(keys))
RECURSIVE ColumnsOf(_, _)
ColumnsOf(data, cols) ==
    IF data = <<>> THEN cols
    ELSE ColumnsOf(Tail(data), AddKeys(cols, DictKeys(Head(data))))

\* df[col] without its missing entries: the values of the records that have
\* the column, in record order.
RECURSIVE SeriesValues(_, _)
SeriesValues(data, col) ==
    IF data = <<>> THEN <<>>
    ELSE IF DictHas(Head(data), col)
    THEN <<DictGet(Head(data), col, <<>>)>> \o SeriesValues(Tail(data), col)
    ELSE SeriesValues(Tail(data), col)

\* A faulty variant of SeriesCount: an empty string is taken for a missing entry.
SeriesCountNonEmpty(values) ==
    Cardinality({i \in DOMAIN values : values[i] # <<>>})

\* series.count(): the number of entries that are not missing.
SeriesCount(values) == Len(values)

\* The distinct values in order of first appearance.
RECURSIVE Distinct(_, _)
Distinct(values, seen) ==
    IF values = <<>> THEN seen
    ELSE Distinct(Tail(values),
                  IF Head(values) \in Range(seen) THEN seen
                  ELSE Append(seen, Head(values)))

\* len(series.unique()): a missing entry counts as one more distinct value.
UniqueCount(values, n_records) ==
    Len(Distinct(values, <<>>)) + (IF Len(values) < n_records THEN 1 ELSE 0)

Occurrences(values, v) == Cardinality({i \in DOMAIN values : values[i] = v})

\* Stable sort of <<value, count>> pairs by descending count.
RECURSIVE SortByCount(_)
SortByCount(pairs) ==
    IF pairs = <<>> THEN <<>>
    ELSE LET top == CHOOSE i \in DOMAIN pairs :
                      /\ \A j \in DOMAIN pairs : pairs[j][2] <= pairs[i][2]
                      /\ \A j \in 1..(i - 1) : pairs[j][2] < pairs[i][2]
         IN  <<pairs[top]>> \o
             SortByCount(SubSeq(pairs, 1, top - 1) \o
                         SubSeq(pairs, top + 1, Len(pairs)))

\* series.value_counts().to_dict(): value -> occurrences, most frequent first.
ValueCounts(values) ==
    LET keys == Distinct(values, <<>>)
    IN  SortByCount([i \in DOMAIN keys |-> <<keys[i], Occurrences(values, keys[i])>>])

\* series.astype(str).str.len().min() and .max(); a missing entry reads "nan".
StrLengths(values, n_records) ==
    {Len(values[i]) : i \in DOMAIN values} \cup
    (IF Len(values) < n_records THEN {3} ELSE {})
MinOf(S) == CHOOSE a \in S : \A b \in S : a <= b
MaxOf(S) == CHOOSE a \in S : \A b \in S : a >= b

\* unique_count / total_count if total_count > 0 else 0, kept as a fraction.
Cardinality01(unique_count, total_count) ==
    IF total_count > 0 THEN [num |-> unique_count, den |-> total_count]
    ELSE [num |-> 0, den |-> 1]

ColumnStats(data, col) ==
    LET values == SeriesValues(data, col)
        total_count == SeriesCount(values)
        unique_count == UniqueCount(values, Len(data))
        lengths == StrLengths(values, Len(data))
    IN  [total_count |-> total_count,
         unique_count |-> unique_count,
         cardinality |-> Cardinality01(unique_count, total_count),
         value_counts |-> ValueCounts(values),
         min_length |-> MinOf(lengths),
         max_length |-> MaxOf(lengths)]

ProfileData(data) ==
    IF data = <<>> THEN <<>>
    ELSE LET cols == ColumnsOf(data, <<>>)
         IN  [i \in DOMAIN cols |-> <<cols[i], ColumnStats(data, cols[i])>>]

-----------------------------------------------------------------------------
(* Inputs of the model.                                                    *)

\* The header row of the worksheet.
HeaderRow == <<CellStr("Field Name"), CellStr("Field Length")>>

NameCells == {CellNone, CellStr("a"), CellStr("b")}

\* Length specifiers: 0, 0.4, -3, 2, 2.7, "X(2)", "X(0)", "X(-5)", "9(1)",
\* "X(A)", "X2", "(1)(2)", "()", None.
LengthCells ==
    {CellNum(0), CellNum(40), CellNum(-300), CellNum(200), CellNum(270),
     CellStr(<<"X", "(", "2", ")">>), CellStr(<<"X", "(", "0", ")">>),
     CellStr(<<"X", "(", "-", "5", ")">>), CellStr(<<"9", "(", "1", ")">>),
     CellStr(<<"X", "(", "A", ")">>), CellStr(<<"X", "2">>),
     CellStr(<<"(", "1", ")", "(", "2", ")">>), CellStr(<<"(", ")">>),
     CellNone}

SheetRows == {<<n, l>> : n \in NameCells, l \in LengthCells}

\* Worksheets: two columns, or the column of the names only.
NameOnlyRows == {<<n>> : n \in NameCells}
Sheets ==
    {<<HeaderRow>> \o rows : rows \in SeqsUpTo(SheetRows, MaxRows)}
    \cup {<<<<CellStr("Field Name")>>>> \o rows :
             rows \in SeqsUpTo(NameOnlyRows, MaxRows)}

\* Worksheet rows of the pipeline runs: names a and b, widths -1, 0, 1, 2, 3.
FieldCells == {CellStr("a"), CellStr("b")}
WidthCells ==
    {CellStr(<<"X", "(", "-", "1", ")">>), CellNum(0),
     CellStr(<<"X", "(", "1", ")">>), CellNum(200),
     CellStr(<<"9", "(", "3", ")">>)}
PipelineRows == {<<n, l>> : n \in FieldCells, l \in WidthCells}

\* The characters of the data text.
TextChars == {"x", " ", "\n"}

\* Nothing classified, nothing saved.
NotSaved == [saved |-> FALSE]
NoService == [kind |-> "none"]
ClassifierIdle ==
    /\ api_key = FALSE
    /\ service = NoService
    /\ column_name = ""
    /\ column_profile = NoDict
    /\ inferred_pattern = NoDict
    /\ inferred_profile = <<>>
    /\ database = NotSaved

-----------------------------------------------------------------------------
(* parse_xls_layout on its own.                                            *)

InitLayout ==
    /\ pc = "layout_call"
    /\ file_state \in {"ok", "missing", "corrupt"}
    /\ sheet_rows \in Sheets
    /\ layout = <<>>
    /\ data_content = <<>>
    /\ parsed_data = <<>>
    /\ profile = <<>>
    /\ volume = 0
    /\ generated_data = <<>>
    /\ sequence_counters = <<>>
    /\ enum_values = <<>>
    /\ ClassifierIdle

\* if not os.path.exists(filepath): raise FileNotFoundError
LayoutFileNotFound ==
    /\ pc = "layout_call"
    /\ file_state = "missing"
    /\ pc' = "layout_raised"
    /\ UNCHANGED <<sheet_rows, file_state, layout, data_content, parsed_data,
                   profile, volume, generated_data, sequence_counters, enum_values>>
    /\ UNCHANGED classifier_vars

\* except Exception: print(...); return []
LayoutLoadError ==
    /\ pc = "layout_call"
    /\ file_state = "corrupt"
    /\ layout' = <<>>
    /\ pc' = "layout_returned"
    /\ UNCHANGED <<sheet_rows, file_state, data_content, parsed_data,
                   profile, volume, generated_data, sequence_counters, enum_values>>
    /\ UNCHANGED classifier_vars

\* The loop over the rows, and return layout.
LayoutParsed ==
    /\ pc = "layout_call"
    /\ file_state = "ok"
    /\ ~ParseXlsLayoutRaises(sheet_rows)
    /\ layout' = ParseXlsLayoutRows(sheet_rows)
    /\ pc' = "layout_returned"
    /\ UNCHANGED <<sheet_rows, file_state, data_content, parsed_data,
                   profile, volume, generated_data, sequence_counters, enum_values>>
    /\ UNCHANGED classifier_vars

\* The loop over the rows of a one-column worksheet: IndexError at row[1].
LayoutIndexError ==
    /\ pc = "layout_call"
    /\ file_state = "ok"
    /\ ParseXlsLayoutRaises(sheet_rows)
    /\ pc' = "layout_raised"
    /\ UNCHANGED <<sheet_rows, file_state, layout, data_content, parsed_data,
                   profile, volume, generated_data, sequence_counters, enum_values>>
    /\ UNCHANGED classifier_vars

NextLayout ==
    \/ LayoutFileNotFound
    \/ LayoutLoadError
    \/ LayoutParsed
    \/ LayoutIndexError

SpecLayout == InitLayout /\ [][NextLayout]_vars

-----------------------------------------------------------------------------
(* agent_pipeline.py: the nodes up to the profile.                         *)

InitPipeline ==
    /\ pc = "parse_layout"
    /\ file_state = "ok"
    /\ sheet_rows = <<>>
    /\ layout = <<>>
    /\ data_content = <<>>
    /\ parsed_data = <<>>
    /\ profile = <<>>
    /\ volume = 0
    /\ generated_data = <<>>
    /\ sequence_counters = <<>>
    /\ enum_values = <<>>
    /\ ClassifierIdle

\* parse_layout_node: the worksheet is read and the layout parsed.
ParseLayoutNode ==
    /\ pc = "parse_layout"
    /\ \E rows \in SeqsUpTo(PipelineRows, MaxFields) :
         /\ sheet_rows' = <<HeaderRow>> \o rows
         /\ layout' = ParseXlsLayoutRows(<<HeaderRow>> \o rows)
    /\ pc' = "parse_data"
    /\ UNCHANGED <<file_state, data_content, parsed_data, profile, volume,
                   generated_data, sequence_counters, enum_values>>
    /\ UNCHANGED classifier_vars

\* parse_data_node: the data text is read and decoded with the layout.
ParseDataNode ==
    /\ pc = "parse_data"
    /\ \E text \in SeqsUpTo(TextChars, MaxText) :
         /\ data_content' = text
         /\ parsed_data' = ParseFixedLengthData(text, layout)
    /\ pc' = "profile_data"
    /\ UNCHANGED <<sheet_rows, file_state, layout, profile, volume,
                   generated_data, sequence_counters, enum_values>>
    /\ UNCHANGED classifier_vars

\* profile_data_node: the decoded records are profiled (the cast to native
\* numbers changes no value).
ProfileDataNode ==
    /\ pc = "profile_data"
    /\ profile' = ProfileData(parsed_data)
    /\ pc' = "infer_patterns"
    /\ UNCHANGED <<sheet_rows, file_state, layout, data_content, parsed_data,
                   volume, generated_data, sequence_counters, enum_values>>
    /\ UNCHANGED classifier_vars

NextPipeline == ParseLayoutNode \/ ParseDataNode \/ ProfileDataNode

SpecPipeline == InitPipeline /\ [][NextPipeline]_vars

-----------------------------------------------------------------------------
(* Properties of the record decoder.                                       *)

Decoded == pc \in {"profile_data", "infer_patterns"}

\* The lines of a text, by the positions of its line breaks.
BreaksOf(text) == {i \in DOMAIN text : text[i] = "\n"}
BreakAt(text, k) ==
    IF k = 0 THEN 0
    ELSE IF k > Cardinality(BreaksOf(text)) THEN Len(text) + 1
    ELSE CHOOSE i \in BreaksOf(text) :
           Cardinality({j \in BreaksOf(text) : j <= i}) = k
LineCount(text) == Cardinality(BreaksOf(text)) + 1
LineAt(text, k) == SubSeq(text, BreakAt(text, k - 1) + 1, BreakAt(text, k) - 1)

WidthSum(lay) == SumSeq([i \in DOMAIN lay |-> lay[i][2]])
IsBlank(line) == \A i \in DOMAIN line : line[i] \in Whitespace

\* The lines the decoder has to accept: not blank, as long as the layout.
AcceptedLines(text, lay) ==
    {k \in 1..LineCount(text) :
       ~IsBlank(LineAt(text, k)) /\ Len(LineAt(text, k)) = WidthSum(lay)}
RankIn(K, k) == Cardinality({j \in K : j <= k})

\* C1: the output of parse_fixed_length_data is, in input line order, exactly
\* one decoded record for each line that is not blank and whose length is the
\* sum of the layout widths; lines of another length are skipped and do not
\* stop the decoding of the lines after them.
C1_OneRecordPerAcceptedLine ==
    Decoded =>
      LET K == AcceptedLines(data_content, layout)
      IN  /\ Len(parsed_data) = Cardinality(K)
          /\ \A k \in K :
               parsed_data[RankIn(K, k)] = DecodeRow(LineAt(data_content, k), layout)

\* A line of the wrong length comes before a line that is decoded.
C1_Witness ==
    /\ Decoded
    /\ parsed_data # <<>>
    /\ \E k \in 1..LineCount(data_content) :
         /\ ~IsBlank(LineAt(data_content, k))
         /\ Len(LineAt(data_content, k)) # WidthSum(layout)
         /\ \E j \in AcceptedLines(data_content, layout) : k < j

\* The characters of line at the positions p with o < p <= o + w.
Span(line, o, w) ==
    LET ps == {p \in DOMAIN line : o < p /\ p <= o + w}
    IN  IF ps = {} THEN <<>> ELSE SubSeq(line, MinOf(ps), MaxOf(ps))
Offset(lay, i) == SumSeq([j \in 1..(i - 1) |-> lay[j][2]])
LastFieldNamed(lay, name) ==
    CHOOSE i \in DOMAIN lay :
      lay[i][1] = name /\ \A j \in DOMAIN lay : lay[j][1] = name => j <= i
FieldNamesOf(lay) == {lay[i][1] : i \in DOMAIN lay}

\* The claim of C2 for one accepted line and the record decoded from it.
SpansDecoded(line, lay, row) ==
    /\ Range(DictKeys(row)) = FieldNamesOf(lay)
    /\ \A name \in FieldNamesOf(lay) :
         LET i == LastFieldNamed(lay, name)
         IN  DictGet(row, name, <<>>) = Strip(Span(line, Offset(lay, i), lay[i][2]))
    /\ \A p \in DOMAIN line :
         Cardinality({i \in DOMAIN lay :
                        Offset(lay, i) < p /\ p <= Offset(lay, i) + lay[i][2]}) = 1

\* C2: for every layout and every accepted line, the decoded record maps each
\* field name to the trimmed slice line[o_i, o_i + w_i) of the last field of
\* that name, o_i being the sum of the widths before it, and the spans are
\* consecutive, do not overlap and cover the line.
C2_FieldsAreTrimmedSpans ==
    Decoded =>
      LET K == AcceptedLines(data_content, layout)
      IN  \A k \in K :
            RankIn(K, k) \in DOMAIN parsed_data =>
              SpansDecoded(LineAt(data_content, k), layout,
                           parsed_data[RankIn(K, k)])

\* C2 on the layouts whose widths are all positive.
C2_PositiveWidths ==
    (\A i \in DOMAIN layout : layout[i][2] > 0) => C2_FieldsAreTrimmedSpans

-----------------------------------------------------------------------------
(* Properties of the layout parser.                                        *)

\* C3: every layout returned by parse_xls_layout contains no width that is
\* zero or negative.
C3_WidthsPositive ==
    pc = "layout_returned" => \A i \in DOMAIN layout : layout[i][2] > 0

\* The text between the first "(" and the last ")" of a string, when there
\* is some.
Opens(str) == {i \in DOMAIN str : str[i] = "("}
Closes(str) == {j \in DOMAIN str : str[j] = ")"}
HasInside(str) ==
    Opens(str) # {} /\ Closes(str) # {} /\ MaxOf(Closes(str)) >= MinOf(Opens(str)) + 2
Inside(str) == SubSeq(str, MinOf(Opens(str)) + 1, MaxOf(Closes(str)) - 1)
\* Integer text: an optional sign and digits, spaces around them allowed.
Unsigned(t) == IF t # <<>> /\ Head(t) \in {"+", "-"} THEN Tail(t) ELSE t
IsIntegerText(t) == Unsigned(Strip(t)) # <<>> /\ AllDigits(Unsigned(Strip(t)))
IntegerOfText(t) ==
    IF Head(Strip(t)) = "-" THEN -DigitsValue(Unsigned(Strip(t)))
    ELSE DigitsValue(Unsigned(Strip(t)))
\* The whole part of a number kept in hundredths.
WholePart(x) ==
    CHOOSE w \in -99..99 :
      w * x >= 0 /\ 100 * Abs(w) <= Abs(x) /\ Abs(x) < 100 * (Abs(w) + 1)
\* The rows that give a field, and the width they give.
GivesWidth(cell) ==
    \/ cell.t = "num"
    \/ cell.t = "str" /\ HasInside(cell.s) /\ IsIntegerText(Inside(cell.s))
WidthGiven(cell) ==
    IF cell.t = "num" THEN WholePart(cell.x) ELSE IntegerOfText(Inside(cell.s))
GivesField(row) == row[1].t # "none" /\ GivesWidth(row[2])

\* C14: over the rows after the header row, parse_xls_layout returns, in row
\* order, exactly the rows that have a name and whose length specifier is a
\* number (truncated) or a string with an integer between parentheses; any
\* other row is skipped and the rows after it still appear.
C14_RowsKeptInOrder ==
    (pc = "layout_returned" /\ file_state = "ok") =>
      LET rows == Tail(sheet_rows)
          kept == {i \in DOMAIN rows : GivesField(rows[i])}
      IN  /\ Len(layout) = Cardinality(kept)
          /\ \A i \in kept :
               layout[RankIn(kept, i)] = <<rows[i][1].s, WidthGiven(rows[i][2])>>

\* A row with a name and a string that gives no width is followed by a row
\* that is returned.
C14_Witness ==
    /\ pc = "layout_returned"
    /\ file_state = "ok"
    /\ Len(sheet_rows) = 3
    /\ sheet_rows[2][1].t # "none"
    /\ sheet_rows[2][2].t = "str"
    /\ ~GivesField(sheet_rows[2])
    /\ GivesField(sheet_rows[3])
    /\ Len(layout) = 1

-----------------------------------------------------------------------------
(* Properties of the profiler.                                             *)

\* C4: for every column profile of a non-empty sequence of decoded records,
\* the counts of value_counts sum to total_count and unique_count is the
\* number of keys of value_counts.
C4_CountsAgree ==
    (pc = "infer_patterns" /\ parsed_data # <<>>) =>
      /\ profile # <<>>
      /\ \A c \in DOMAIN profile :
           LET stats == profile[c][2]
           IN  /\ SumSeq(DictValues(stats.value_counts)) = stats.total_count
               /\ stats.unique_count =
                    Cardinality(Range(DictKeys(stats.value_counts)))

\* A column of two records, one value of which is empty after trimming.
C4_Witness ==
    /\ pc = "infer_patterns"
    /\ \E c \in DOMAIN profile :
         /\ profile[c][2].total_count = 2
         /\ profile[c][2].unique_count = 2
         /\ DictHas(profile[c][2].value_counts, <<>>)

-----------------------------------------------------------------------------
(* datetime: the proleptic Gregorian calendar of the standard library.     *)

IsLeap(y) == y % 4 = 0 /\ (y % 100 # 0 \/ y % 400 = 0)
DaysInMonthTable == <<31, 28, 31, 30, 31, 30, 31, 31, 30, 31, 30, 31>>
DaysInMonth(y, m) ==
    IF m = 2 /\ IsLeap(y) THEN 29 ELSE DaysInMonthTable[m]
DaysBeforeYear(y) ==
    (y - 1) * 365 + (y - 1) \div 4 - (y - 1) \div 100 + (y - 1) \div 400
DaysBeforeMonthTable == <<0, 31, 59, 90, 120, 151, 181, 212, 243, 273, 304, 334>>
DaysBeforeMonth(y, m) ==
    DaysBeforeMonthTable[m] + (IF m > 2 /\ IsLeap(y) THEN 1 ELSE 0)

\* date.toordinal()
ToOrdinal(date) ==
    DaysBeforeYear(date.y) + DaysBeforeMonth(date.y, date.m) + date.d

\* date.fromordinal(n)
FromOrdinal(ordinal) ==
    LET n0 == ordinal - 1
        n400 == n0 \div 146097
        r400 == n0 % 146097
        n100 == r400 \div 36524
        r100 == r400 % 36524
        n4 == r100 \div 1461
        r4 == r100 % 1461
        n1 == r4 \div 365
        n == r4 % 365
        year == n400 * 400 + 1 + n100 * 100 + n4 * 4 + n1
    IN  IF n1 = 4 \/ n100 = 4 THEN [y |-> year - 1, m |-> 12, d |-> 31]
        ELSE LET leapyear == n1 = 3 /\ (n4 # 24 \/ n100 = 3)
                 leap(mm) == IF mm > 2 /\ leapyear THEN 1 ELSE 0
                 guess == (n + 50) \div 32
                 month == IF DaysBeforeMonthTable[guess] + leap(guess) > n
                          THEN guess - 1 ELSE guess
                 preceding == DaysBeforeMonthTable[month] + leap(month)
             IN  [y |-> year, m |-> month, d |-> n - preceding + 1]

\* A field of the data string for one directive, by the alternatives of the
\* directive's regular expression.
MonthField(f) ==
    \/ Len(f) = 2 /\ f[1] = "1" /\ f[2] \in {"0", "1", "2"}
    \/ Len(f) = 2 /\ f[1] = "0" /\ IsDigit(f[2]) /\ f[2] # "0"
    \/ Len(f) = 1 /\ IsDigit(f[1]) /\ f[1] # "0"
DayField(f) ==
    \/ Len(f) = 2 /\ f[1] = "3" /\ f[2] \in {"0", "1"}
    \/ Len(f) = 2 /\ f[1] \in {"1", "2"} /\ IsDigit(f[2])
    \/ Len(f) = 2 /\ f[1] = "0" /\ IsDigit(f[2]) /\ f[2] # "0"
    \/ Len(f) = 1 /\ IsDigit(f[1]) /\ f[1] # "0"
    \/ Len(f) = 2 /\ f[1] = " " /\ IsDigit(f[2]) /\ f[2] # "0"
YearField(f) == Len(f) = 4 /\ AllDigits(f)

NoMatch == [ok |-> FALSE, y |-> 0, m |-> 0, d |-> 0]

\* The match of a data string against the regular expression of a format, by
\* backtracking; a directive tries its longer alternative first.  The
\* directives are %m, %d and %Y; any other is a bad directive (ValueError).
RECURSIVE MatchFormat(_, _, _)
MatchFormat(data, fmt, got) ==
    IF fmt = <<>> THEN (IF data = <<>> THEN got ELSE NoMatch)
    ELSE IF Head(fmt) = "%"
    THEN IF Len(fmt) < 2 \/ fmt[2] \notin {"m", "d", "Y"} THEN NoMatch
         ELSE LET rest == SubSeq(fmt, 3, Len(fmt))
                  try(w) ==
                    IF Len(data) < w THEN NoMatch
                    ELSE LET f == SubSeq(data, 1, w)
                             after == SubSeq(data, w + 1, Len(data))
                             v == DigitsValue(LStrip(f))
                         IN  IF fmt[2] = "m" /\ MonthField(f)
                             THEN MatchFormat(after, rest, [got EXCEPT !.m = v])
                             ELSE IF fmt[2] = "d" /\ DayField(f)
                             THEN MatchFormat(after, rest, [got EXCEPT !.d = v])
                             ELSE IF fmt[2] = "Y" /\ YearField(f)
                             THEN MatchFormat(after, rest, [got EXCEPT !.y = v])
                             ELSE NoMatch
                  longer == try(2)
              IN  IF fmt[2] = "Y" THEN try(4)
                  ELSE IF longer.ok THEN longer ELSE try(1)
    ELSE IF data # <<>> /\ Head(data) = Head(fmt)
    THEN MatchFormat(Tail(data), Tail(fmt), got)
    ELSE NoMatch

\* datetime.strptime(data, fmt): the fields default to 1900-01-01, and a date
\* that does not exist is a ValueError (ok = FALSE).
Strptime(data, fmt) ==
    LET got == MatchFormat(data, fmt, [ok |-> TRUE, y |-> 1900, m |-> 1, d |-> 1])
    IN  IF got.ok /\ got.y >= 1 /\ got.d <= DaysInMonth(got.y, got.m)
        THEN got ELSE NoMatch

\* date.strftime(fmt) for the directives %m, %d and %Y.
RECURSIVE Strftime(_, _)
Strftime(date, fmt) ==
    IF fmt = <<>> THEN <<>>
    ELSE IF Head(fmt) = "%" /\ Len(fmt) >= 2 /\ fmt[2] \in {"m", "d", "Y"}
    THEN (IF fmt[2] = "m" THEN Zfill(NatStr(date.m), 2)
          ELSE IF fmt[2] = "d" THEN Zfill(NatStr(date.d), 2)
          ELSE Zfill(NatStr(date.y), 4))
         \o Strftime(date, SubSeq(fmt, 3, Len(fmt)))
    ELSE <<Head(fmt)>> \o Strftime(date, Tail(fmt))

-----------------------------------------------------------------------------
(* data_generator.py                                                       *)


PatternOf(stats) == Get(stats, "pattern", "None")

\* A faulty variant of SequenceCountersInit: the counters go on from where the last
\* invocation left them.
RECURSIVE SequenceCountersKept(_)
SequenceCountersKept(prof) ==
    IF prof = <<>> THEN <<>>
    ELSE (IF PatternOf(Head(prof)[2]) = "SEQUENCE"
          THEN <<<<Head(prof)[1], DictGet(sequence_counters, Head(prof)[1], 0)>>>>
          ELSE <<>>)
         \o SequenceCountersKept(Tail(prof))

\* sequence_counters = {col: 0 for col, stats in profile.items()
\*                      if stats.get('pattern') == 'SEQUENCE'}
RECURSIVE SequenceCountersInit(_)
SequenceCountersInit(prof) ==
    IF prof = <<>> THEN <<>>
    ELSE (IF PatternOf(Head(prof)[2]) = "SEQUENCE"
          THEN <<<<Head(prof)[1], 0>>>> ELSE <<>>)
         \o SequenceCountersInit(Tail(prof))

\* A faulty variant of EnumKeys: only the values observed more than once.
RECURSIVE KeysSeenTwice(_)
KeysSeenTwice(counts) ==
    IF counts = <<>> THEN <<>>
    ELSE (IF Head(counts)[2] > 1 THEN <<Head(counts)[1]>> ELSE <<>>)
         \o KeysSeenTwice(Tail(counts))
EnumKeysFrequent(stats) == KeysSeenTwice(Get(stats, "value_counts", <<>>))

\* list(stats.get('value_counts', {}).keys())
EnumKeys(stats) == DictKeys(Get(stats, "value_counts", <<>>))

\* enum_values = {col: list(...keys()) for col, stats in profile.items()
\*                if stats.get('pattern') == 'ENUM'}
RECURSIVE EnumValuesInit(_)
EnumValuesInit(prof) ==
    IF prof = <<>> THEN <<>>
    ELSE (IF PatternOf(Head(prof)[2]) = "ENUM"
          THEN <<<<Head(prof)[1], EnumKeys(Head(prof)[2])>>>> ELSE <<>>)
         \o EnumValuesInit(Tail(prof))

\* The outcome of one column of one record: the value stored in the record
\* and the counters afterwards, or an exception that leaves the function.
Value(v, counters) == [raised |-> FALSE, value |-> v, counters |-> counters]
Raise(counters) == [raised |-> TRUE, value |-> <<>>, counters |-> counters]

\* random.randint(a, b): every integer of a..b; ok = FALSE is ValueError.
Randint(a, b) == [ok |-> a <= b, draws |-> a..b]

\* random.uniform(a, b), in hundredths: every number between a and b.
Uniform(a, b) == Min(a, b)..Max(a, b)

\* f"{x:.{decimal_places}f}" for x in hundredths: the strings the rounding of
\* x can give.  A tie at one decimal place is decided by the binary value of
\* the float and can go either way; a tie at no decimal place is exact and
\* goes to the even neighbour.
FixedStrings(x, decimal_places) ==
    LET sign == IF x < 0 THEN <<"-">> ELSE <<>>
        a == Abs(x)
    IN  IF decimal_places >= 2
        THEN {sign \o NatStr(a \div 100) \o <<".">> \o Zfill(NatStr(a % 100), 2)
                \o Zeros(decimal_places - 2)}
        ELSE IF decimal_places = 1
        THEN LET q == a \div 10
                 r == a % 10
                 tenths == IF r < 5 THEN {q} ELSE IF r > 5 THEN {q + 1}
                           ELSE {q, q + 1}
             IN  {sign \o NatStr(t \div 10) \o <<".">> \o NatStr(t % 10) : t \in tenths}
        ELSE LET q == a \div 100
                 r == a % 100
                 whole == IF r < 50 THEN q ELSE IF r > 50 THEN q + 1
                          ELSE IF q % 2 = 0 THEN q ELSE q + 1
             IN  {sign \o NatStr(whole)}

\* A faulty variant of EnumOutcomes: an empty list of choices is replaced by
\* the default [''] of the lookup.
EnumOutcomesDefaulted(col, enums, counters) ==
    LET found == DictGet(enums, col, <<<<>>>>)
        choices == IF found = <<>> THEN <<<<>>>> ELSE found
    IN  {Value(choices[i], counters) : i \in DOMAIN choices}

\* choices = enum_values.get(col, ['']); random.choice(choices)
EnumOutcomes(col, enums, counters) ==
    LET choices == DictGet(enums, col, <<<<>>>>)
    IN  IF choices = <<>> THEN {Raise(counters)}
        ELSE {Value(choices[i], counters) : i \in DOMAIN choices}

\* current_count = sequence_counters[col] + 1
NextCount(counters, col) == DictGet(counters, col, 0) + 1

\* A faulty variant of SequenceOutcomes: the value is cut to the last length
\* characters when max_length is positive.
SequenceOutcomesCut(col, stats, counters) ==
    LET current_count == NextCount(counters, col)
        length == Get(stats, "max_length", 0)
        padded == Zfill(NatStr(current_count), length)
    IN  {Value(IF length > 0 /\ Len(padded) > length
               THEN SubSeq(padded, Len(padded) - length + 1, Len(padded))
               ELSE padded,
               DictPut(counters, col, current_count))}

\* new_record[col] = str(current_count).zfill(length)
\* sequence_counters[col] = current_count
SequenceOutcomes(col, stats, counters) ==
    LET current_count == NextCount(counters, col)
        length == Get(stats, "max_length", 0)
    IN  {Value(Zfill(NatStr(current_count), length),
               DictPut(counters, col, current_count))}

\* A faulty variant of IntegerDraws: one more than max_value can be drawn.
IntegerDrawsBeyond(min_value, max_value) ==
    Randint(IntOf(min_value), IntOf(max_value) + 1)

\* random.randint(int(min_value), int(max_value))
IntegerDraws(min_value, max_value) == Randint(IntOf(min_value), IntOf(max_value))

NumberOutcomes(col, stats, counters) ==
    LET guidelines == Get(stats, "generation_guidelines", NoDict)
        number_type == Get(guidelines, "number_type", "INTEGER")
        min_value == Get(guidelines, "min_value", 0)
        max_value == Get(guidelines, "max_value", 10000)
    IN  IF number_type = "DECIMAL"
        THEN LET decimal_places == Get(guidelines, "decimal_places", 2)
             IN  {Value(str, counters) :
                    str \in UNION {FixedStrings(x, decimal_places) :
                                     x \in Uniform(min_value, max_value)}}
        ELSE LET r == IntegerDraws(min_value, max_value)
             IN  IF ~r.ok THEN {Raise(counters)}
                 ELSE IF number_type = "STRING_OF_DIGITS"
                 THEN {Value(Zfill(IntStr(v),
                                   Get(stats, "max_length", Len(IntStr(v)))),
                             counters) : v \in r.draws}
                 ELSE {Value(IntStr(v), counters) : v \in r.draws}

\* A faulty variant of DayOffsets: one day too many.
DayOffsetsBeyond(days_diff) == Randint(0, days_diff + 1)

\* A faulty variant of DayOffsets: the last day is never drawn.
DayOffsetsHalfOpen(days_diff) == Randint(0, days_diff - 1)

\* random.randint(0, days_diff)
DayOffsets(days_diff) == Randint(0, days_diff)

\* A faulty variant of DateFallback: the exception is not caught.
DateFallbackRaises(counters) == Raise(counters)

\* except (ValueError, TypeError): new_record[col] = "00000000"
DateFallback(counters) ==
    Value(<<"0", "0", "0", "0", "0", "0", "0", "0">>, counters)

DateOutcomes(col, stats, counters) ==
    LET guidelines == Get(stats, "generation_guidelines", NoDict)
        date_format == Get(guidelines, "date_format", <<"%", "Y", "%", "m", "%", "d">>)
        min_date_str == Get(guidelines, "min_date",
                            <<"2", "0", "0", "0", "0", "1", "0", "1">>)
        max_date_str == Get(guidelines, "max_date",
                            <<"2", "0", "2", "5", "1", "2", "3", "1">>)
        min_date == Strptime(min_date_str, date_format)
        max_date == Strptime(max_date_str, date_format)
    IN  IF ~min_date.ok \/ ~max_date.ok THEN {DateFallback(counters)}
        ELSE LET days_diff == ToOrdinal(max_date) - ToOrdinal(min_date)
                 r == DayOffsets(days_diff)
             IN  IF ~r.ok THEN {DateFallback(counters)}
                 ELSE {Value(Strftime(FromOrdinal(ToOrdinal(min_date) + random_days),
                                      date_format), counters) :
                         random_days \in r.draws}

\* string.ascii_letters + string.digits + ' ', by one character that strip()
\* keeps and the space.
Alphabet == {"a", " "}

\* ''.join(random.choices(alphabet, k=length)).strip()
StringOutcomes(col, stats, counters) ==
    LET min_len == Get(stats, "min_length", 1)
        max_len == Get(stats, "max_length", 10)
        r == Randint(min_len, max_len)
    IN  IF ~r.ok THEN {Raise(counters)}
        ELSE {Value(Strip(str), counters) :
                str \in UNION {[1..length -> Alphabet] : length \in r.draws}}

\* The branch on pattern for one column.
ColumnOutcomes(col, stats, counters, enums) ==
    LET pattern == PatternOf(stats)
    IN  IF pattern = "ENUM" THEN EnumOutcomes(col, enums, counters)
        ELSE IF pattern = "SEQUENCE" THEN SequenceOutcomes(col, stats, counters)
        ELSE IF pattern = "NUMBER" THEN NumberOutcomes(col, stats, counters)
        ELSE IF pattern = "DATE" THEN DateOutcomes(col, stats, counters)
        ELSE StringOutcomes(col, stats, counters)

\* for col in columns: ... new_record[col] = ...   One record, or an
\* exception raised at some column.
RECURSIVE RecordOutcomes(_, _, _, _, _)
RecordOutcomes(prof, i, new_record, counters, enums) ==
    IF i > Len(prof)
    THEN {[raised |-> FALSE, record |-> new_record, counters |-> counters]}
    ELSE UNION {IF o.raised
                THEN {[raised |-> TRUE, record |-> new_record, counters |-> o.counters]}
                ELSE RecordOutcomes(prof, i + 1,
                                    DictPut(new_record, prof[i][1], o.value),
                                    o.counters, enums) :
                o \in ColumnOutcomes(prof[i][1], prof[i][2], counters, enums)}

\* A faulty variant of RangeDone: the loop ends one record early.
RangeDoneEarly(n, vol) == n >= vol - 1

\* for i in range(volume): whether the loop has ended after n records.
RangeDone(n, vol) == n >= vol

-----------------------------------------------------------------------------
(* Inputs of the generator: annotated column statistics.                   *)

MDY == <<"%", "m", "%", "d", "%", "Y">>

\* ENUM with value_counts {"A": 2, "B": 1}, and with no observed value.
EnumAB ==
    [pattern |-> "ENUM", min_length |-> 1, max_length |-> 1,
     value_counts |-> <<<<<<"A">>, 2>>, <<<<"B">>, 1>>>>]
EnumNone ==
    [pattern |-> "ENUM", min_length |-> 0, max_length |-> 0,
     value_counts |-> <<>>]
\* ENUM without value_counts.
EnumAbsent == [pattern |-> "ENUM", min_length |-> 0, max_length |-> 0]
\* SEQUENCE with max_length 2, and without max_length.
Sequence2 == [pattern |-> "SEQUENCE", min_length |-> 2, max_length |-> 2]
SequenceBare == [pattern |-> "SEQUENCE"]
\* NUMBER: INTEGER in [1.5, 2.5]; DECIMAL in [1.0, 1.1] with one decimal
\* place; STRING_OF_DIGITS in [9, 10] with max_length 3.
NumberInteger ==
    [pattern |-> "NUMBER", min_length |-> 1, max_length |-> 1,
     generation_guidelines |->
       [number_type |-> "INTEGER", min_value |-> 150, max_value |-> 250,
        decimal_places |-> 0]]
NumberDecimal ==
    [pattern |-> "NUMBER", min_length |-> 3, max_length |-> 3,
     generation_guidelines |->
       [number_type |-> "DECIMAL", min_value |-> 100, max_value |-> 110,
        decimal_places |-> 1]]
NumberDigits ==
    [pattern |-> "NUMBER", min_length |-> 3, max_length |-> 3,
     generation_guidelines |->
       [number_type |-> "STRING_OF_DIGITS", min_value |-> 900,
        max_value |-> 1000, decimal_places |-> 0]]
\* DATE: 02292024 .. 03012024 as %m%d%Y; the format "MMDDYYYY", which has no
\* directive; a min_date that is no date.
DateLeap ==
    [pattern |-> "DATE", min_length |-> 8, max_length |-> 8,
     generation_guidelines |->
       [date_format |-> MDY,
        min_date |-> <<"0", "2", "2", "9", "2", "0", "2", "4">>,
        max_date |-> <<"0", "3", "0", "1", "2", "0", "2", "4">>]]
DateNoDirective ==
    [pattern |-> "DATE", min_length |-> 8, max_length |-> 8,
     generation_guidelines |->
       [date_format |-> <<"M", "M", "D", "D", "Y", "Y", "Y", "Y">>,
        min_date |-> <<"0", "1", "0", "1", "2", "0", "2", "3">>,
        max_date |-> <<"1", "2", "3", "1", "2", "0", "2", "3">>]]
DateBadMin ==
    [pattern |-> "DATE", min_length |-> 8, max_length |-> 8,
     generation_guidelines |->
       [date_format |-> MDY,
        min_date |-> <<"0", "2", "3", "0", "2", "0", "2", "3">>,
        max_date |-> <<"0", "3", "0", "1", "2", "0", "2", "3">>]]
\* UNCLASSIFIED with one character.
Unclassified == [pattern |-> "UNCLASSIFIED", min_length |-> 1, max_length |-> 1]

GenColumns ==
    {EnumAB, EnumNone, EnumAbsent, Sequence2, SequenceBare, NumberInteger, NumberDecimal,
     NumberDigits, DateLeap, DateNoDirective, DateBadMin, Unclassified}

\* The column names, in the order of the profile.
ColumnNames == <<"c2", "c1", "c4", "c3">>

GenProfiles ==
    {[i \in DOMAIN f |-> <<ColumnNames[i], f[i]>>] :
       f \in SeqsUpTo(GenColumns, MaxCols)}

-----------------------------------------------------------------------------
(* generate_synthetic_data, invoked again and again.                       *)

InitGen ==
    /\ pc = "gen_call"
    /\ file_state = "ok"
    /\ sheet_rows = <<>>
    /\ layout = <<>>
    /\ data_content = <<>>
    /\ parsed_data = <<>>
    /\ profile = <<>>
    /\ volume = 0
    /\ generated_data = <<>>
    /\ sequence_counters = <<>>
    /\ enum_values = <<>>
    /\ ClassifierIdle

\* The call: generated_data = [], the counters and the enum value lists.
GenerateCall ==
    /\ pc = "gen_call"
    /\ \E prof \in GenProfiles, vol \in 0..MaxVolume :
         /\ profile' = prof
         /\ volume' = vol
         /\ sequence_counters' = SequenceCountersInit(prof)
         /\ enum_values' = EnumValuesInit(prof)
    /\ generated_data' = <<>>
    /\ pc' = "gen_loop"
    /\ UNCHANGED <<sheet_rows, file_state, layout, data_content, parsed_data>>
    /\ UNCHANGED classifier_vars

\* One pass of the loop over range(volume): generated_data.append(new_record)
GenerateRecord ==
    /\ pc = "gen_loop"
    /\ ~RangeDone(Len(generated_data), volume)
    /\ \E o \in RecordOutcomes(profile, 1, <<>>, sequence_counters, enum_values) :
         /\ ~o.raised
         /\ generated_data' = Append(generated_data, o.record)
         /\ sequence_counters' = o.counters
    /\ UNCHANGED <<pc, sheet_rows, file_state, layout, data_content, parsed_data,
                   profile, volume, enum_values>>
    /\ UNCHANGED classifier_vars

\* One pass of the loop that ends in an exception: nothing is returned.
GenerateRaise ==
    /\ pc = "gen_loop"
    /\ ~RangeDone(Len(generated_data), volume)
    /\ \E o \in RecordOutcomes(profile, 1, <<>>, sequence_counters, enum_values) :
         /\ o.raised
         /\ sequence_counters' = o.counters
    /\ pc' = "gen_raised"
    /\ UNCHANGED <<sheet_rows, file_state, layout, data_content, parsed_data,
                   profile, volume, generated_data, enum_values>>
    /\ UNCHANGED classifier_vars

\* return generated_data
GenerateReturn ==
    /\ pc = "gen_loop"
    /\ RangeDone(Len(generated_data), volume)
    /\ pc' = "gen_returned"
    /\ UNCHANGED <<sheet_rows, file_state, layout, data_content, parsed_data,
                   profile, volume, generated_data, sequence_counters, enum_values>>
    /\ UNCHANGED classifier_vars

\* The caller goes on to its next invocation.  Of what the invocation that
\* ended has left, the counters are kept in the state: the next call must
\* not depend on them.
GenerateAgain ==
    /\ pc \in {"gen_returned", "gen_raised"}
    /\ pc' = "gen_call"
    /\ profile' = <<>>
    /\ volume' = 0
    /\ generated_data' = <<>>
    /\ enum_values' = <<>>
    /\ UNCHANGED <<sheet_rows, file_state, layout, data_content, parsed_data,
                   sequence_counters>>
    /\ UNCHANGED classifier_vars

NextGen ==
    \/ GenerateCall
    \/ GenerateRecord
    \/ GenerateRaise
    \/ GenerateReturn
    \/ GenerateAgain

SpecGen == InitGen /\ [][NextGen]_vars

-----------------------------------------------------------------------------
(* Properties of the generator.                                            *)

ColumnsWith(pattern) ==
    {c \in DOMAIN profile : PatternOf(profile[c][2]) = pattern}
ValueAt(k, c) == DictGet(generated_data[k], profile[c][1], <<>>)

\* The number of decimal digits of a natural number.
DecimalLength(n) ==
    CHOOSE len \in 1..10 : n < 10 ^ len /\ (len = 1 \/ n >= 10 ^ (len - 1))

\* C5: in every invocation, whatever earlier invocations did, a SEQUENCE
\* column with max_length L receives in record k the decimal string of k
\* zero-padded to L, so the values strictly increase and none is repeated.
C5_SequenceCountsFromOne ==
    \A c \in ColumnsWith("SEQUENCE") :
      \A k \in DOMAIN generated_data :
        LET v == ValueAt(k, c)
            L == Get(profile[c][2], "max_length", 0)
        IN  /\ v # <<>> /\ AllDigits(v)
            /\ DigitsValue(v) = k
            /\ Len(v) = Max(L, DecimalLength(k))
            /\ \A j \in 1..(k - 1) :
                 /\ DigitsValue(ValueAt(j, c)) < DigitsValue(v)
                 /\ ValueAt(j, c) # v

\* An invocation has returned two records with a SEQUENCE column padded to 2.
C5_Witness ==
    /\ pc = "gen_returned"
    /\ Len(generated_data) = 2
    /\ \E c \in ColumnsWith("SEQUENCE") :
         /\ Get(profile[c][2], "max_length", 0) = 2
         /\ ValueAt(2, c) = <<"0", "2">>

FractionOf(str) ==
    IF \E i \in DOMAIN str : str[i] = "."
    THEN SubSeq(str, (CHOOSE i \in DOMAIN str : str[i] = ".") + 1, Len(str))
    ELSE <<>>
WholeOf(str) ==
    LET unsigned == IF str # <<>> /\ Head(str) = "-" THEN Tail(str) ELSE str
    IN  IF \E i \in DOMAIN unsigned : unsigned[i] = "."
        THEN SubSeq(unsigned, 1, (CHOOSE i \in DOMAIN unsigned : unsigned[i] = ".") - 1)
        ELSE unsigned
DenotesNumber(str) ==
    /\ WholeOf(str) # <<>> /\ AllDigits(WholeOf(str))
    /\ AllDigits(FractionOf(str)) /\ Len(FractionOf(str)) <= 2
NumberOf(str) ==
    LET f == FractionOf(str)
        magnitude == 100 * DigitsValue(WholeOf(str))
                     + (IF Len(f) = 0 THEN 0
                        ELSE IF Len(f) = 1 THEN 10 * DigitsValue(f)
                        ELSE DigitsValue(f))
    IN  IF str # <<>> /\ Head(str) = "-" THEN -magnitude ELSE magnitude

\* C7: for a NUMBER column with generation_guidelines and
\* min_value <= max_value, every generated string denotes a number between
\* min_value and max_value, for each number_type and also when a bound is not
\* whole; for DECIMAL it has exactly decimal_places digits after the point.
C7_NumberWithinBounds ==
    \A c \in ColumnsWith("NUMBER") :
      LET stats == profile[c][2]
          g == Get(stats, "generation_guidelines", NoDict)
      IN  ("generation_guidelines" \in DOMAIN stats /\ g.min_value <= g.max_value) =>
            \A k \in DOMAIN generated_data :
              LET v == ValueAt(k, c)
              IN  /\ DenotesNumber(v)
                  /\ g.min_value <= NumberOf(v)
                  /\ NumberOf(v) <= g.max_value
                  /\ g.number_type = "DECIMAL" =>
                       Len(FractionOf(v)) = g.decimal_places

\* Dates compared by year, month and day.
DateLE(a, b) ==
    \/ a.y < b.y
    \/ a.y = b.y /\ a.m < b.m
    \/ a.y = b.y /\ a.m = b.m /\ a.d <= b.d

\* The DATE columns whose guidelines give a format and two bounds.
GuidedDates ==
    {c \in ColumnsWith("DATE") :
       "generation_guidelines" \in DOMAIN profile[c][2]}
BoundsParse(g) ==
    Strptime(g.min_date, g.date_format).ok /\ Strptime(g.max_date, g.date_format).ok

\* C8: for a DATE column whose guidelines give a date_format and
\* min_date <= max_date that both parse with it, every generated string
\* parses with date_format to a date from min_date to max_date inclusive.
C8_DateWithinBounds ==
    \A c \in GuidedDates :
      LET g == profile[c][2].generation_guidelines
          lo == Strptime(g.min_date, g.date_format)
          hi == Strptime(g.max_date, g.date_format)
      IN  (BoundsParse(g) /\ DateLE(lo, hi)) =>
            \A k \in DOMAIN generated_data :
              LET d == Strptime(ValueAt(k, c), g.date_format)
              IN  d.ok /\ DateLE(lo, d) /\ DateLE(d, hi)

\* Both bounds are reached: one record holds min_date, another max_date.
C8_Witness ==
    /\ pc = "gen_returned"
    /\ \E c \in GuidedDates :
         LET g == profile[c][2].generation_guidelines
         IN  /\ BoundsParse(g)
             /\ \E j, k \in DOMAIN generated_data :
                  ValueAt(j, c) = g.min_date /\ ValueAt(k, c) = g.max_date

\* The counters before record k of an invocation.
RECURSIVE CountersAfter(_, _)
CountersAfter(prof, n) ==
    IF prof = <<>> THEN <<>>
    ELSE (IF PatternOf(Head(prof)[2]) = "SEQUENCE"
          THEN <<<<Head(prof)[1], n>>>> ELSE <<>>)
         \o CountersAfter(Tail(prof), n)
\* What the rule of column c allows in record k, and whether it can raise.
AllowedAt(k, c) ==
    {o.value : o \in {x \in ColumnOutcomes(profile[c][1], profile[c][2],
                                           CountersAfter(profile, k - 1),
                                           enum_values) : ~x.raised}}
CanRaise(c) ==
    \E o \in ColumnOutcomes(profile[c][1], profile[c][2], sequence_counters,
                            enum_values) : o.raised

\* C9: when min_date or max_date of a DATE column does not parse with
\* date_format, the column holds "00000000" in every record and generation is
\* not aborted by it: an invocation that returns has returned volume records,
\* one that raised did so in another column, and every other column of every
\* record holds a value of its own rule.
C9_DateFallbackKeepsGoing ==
    \A c \in GuidedDates :
      ~BoundsParse(profile[c][2].generation_guidelines) =>
        /\ \A k \in DOMAIN generated_data :
             /\ ValueAt(k, c) = <<"0", "0", "0", "0", "0", "0", "0", "0">>
             /\ DictHas(generated_data[k], profile[c][1])
             /\ \A c2 \in DOMAIN profile \ {c} : ValueAt(k, c2) \in AllowedAt(k, c2)
        /\ pc = "gen_returned" => Len(generated_data) = volume
        /\ pc = "gen_raised" => \E c2 \in DOMAIN profile \ {c} : CanRaise(c2)

\* Two records are returned from a profile whose first column is a DATE with
\* an unparsable bound and whose second column is a SEQUENCE.
C9_Witness ==
    /\ pc = "gen_returned"
    /\ volume = 2
    /\ Len(profile) = 2
    /\ 1 \in GuidedDates
    /\ ~BoundsParse(profile[1][2].generation_guidelines)
    /\ 2 \in ColumnsWith("SEQUENCE")
    /\ ValueAt(2, 1) = <<"0", "0", "0", "0", "0", "0", "0", "0">>

\* C10: generate_synthetic_data(profile, volume) returns exactly volume
\* records, for every volume >= 0, and every record contains exactly the
\* column names of the profile, in the profile's iteration order.
C10_VolumeRecordsInColumnOrder ==
    pc = "gen_returned" =>
      /\ Len(generated_data) = volume
      /\ \A k \in DOMAIN generated_data :
           DictKeys(generated_data[k]) = DictKeys(profile)

\* Two records of two columns have been returned.
C10_Witness ==
    /\ pc = "gen_returned"
    /\ volume = 2
    /\ Len(generated_data) = 2
    /\ Len(profile) = 2

-----------------------------------------------------------------------------
(* llm_profiler.py                                                         *)

\* column_name.lower(), on the names of the model.
Lower(name) ==
    CASE name = "ID" -> "id"
      [] name = "Status" -> "status"
      [] name = "Order_Date" -> "order_date"
      [] OTHER -> name

\* The lengths and the threshold of the mock rules.
SequenceLength == 8
EnumThreshold == 5

\* What infer_data_pattern returns: a dict, or whatever else the response
\* text denotes (a list here).
Dict(d) == [t |-> "dict", d |-> d]
JsonList == [t |-> "list"]
\* An exception that leaves infer_data_pattern.
Raised == [t |-> "raised"]

MockSequence(name) ==
    [column_name |-> name, pattern |-> "SEQUENCE",
     reasoning |-> "The column has a unique value for every record, suggesting a progressive ID or sequence."]
\* A faulty variant of MockEnum: the response carries guidelines.
MockEnumGuided(name) ==
    [column_name |-> name, pattern |-> "ENUM",
     reasoning |-> "The column has a very low cardinality with a few unique values and a clear value distribution.",
     generation_guidelines |-> NoDict]
MockEnum(name) ==
    [column_name |-> name, pattern |-> "ENUM",
     reasoning |-> "The column has a very low cardinality with a few unique values and a clear value distribution."]
\* Numbers in hundredths: 37.00, 12036.50, 1, 1000.
MockNumber(name) ==
    [column_name |-> name, pattern |-> "NUMBER",
     reasoning |-> "The values are strictly numerical.",
     generation_guidelines |->
       [number_type |-> IF Lower(name) = "price" THEN "DECIMAL" ELSE "INTEGER",
        min_value |-> IF Lower(name) = "price" THEN 3700 ELSE 100,
        max_value |-> IF Lower(name) = "price" THEN 1203650 ELSE 100000,
        decimal_places |-> IF Lower(name) = "price" THEN 2 ELSE 0]]
\* A faulty variant of MockDate: the format is written in strftime directives.
MockDateDirectives(name) ==
    [column_name |-> name, pattern |-> "DATE",
     reasoning |-> "The column contains a single, fixed-length date.",
     generation_guidelines |->
       [date_format |-> <<"%", "m", "%", "d", "%", "Y">>,
        min_date |-> <<"0", "1", "0", "1", "2", "0", "2", "3">>,
        max_date |-> <<"1", "2", "3", "1", "2", "0", "2", "3">>]]
MockDate(name) ==
    [column_name |-> name, pattern |-> "DATE",
     reasoning |-> "The column contains a single, fixed-length date.",
     generation_guidelines |->
       [date_format |-> <<"M", "M", "D", "D", "Y", "Y", "Y", "Y">>,
        min_date |-> <<"0", "1", "0", "1", "2", "0", "2", "3">>,
        max_date |-> <<"1", "2", "3", "1", "2", "0", "2", "3">>]]
MockUnclassified(name) ==
    [column_name |-> name, pattern |-> "UNCLASSIFIED",
     reasoning |-> "The column's properties do not fit a well-defined pattern category."]

\* A faulty variant of MockResponse: the ENUM rule is tried first.
MockResponseEnumFirst(name, stats) ==
    IF \/ Lower(name) \in {"product_type", "currency", "status"}
       \/ stats.unique_count < EnumThreshold /\ "value_counts" \in DOMAIN stats
    THEN MockEnum(name)
    ELSE IF \/ Lower(name) = "id"
            \/ /\ stats.unique_count = stats.total_count
               /\ stats.min_length = SequenceLength
               /\ stats.max_length = SequenceLength
    THEN MockSequence(name)
    ELSE IF Lower(name) \in {"price", "quantity", "zip_code"}
    THEN MockNumber(name)
    ELSE IF Lower(name) \in {"order_date"}
    THEN MockDate(name)
    ELSE MockUnclassified(name)

\* if not API_KEY: the mock response, by the name and the profile.
MockResponse(name, stats) ==
    IF \/ Lower(name) = "id"
       \/ /\ stats.unique_count = stats.total_count
          /\ stats.min_length = SequenceLength
          /\ stats.max_length = SequenceLength
    THEN MockSequence(name)
    ELSE IF \/ Lower(name) \in {"product_type", "currency", "status"}
            \/ stats.unique_count < EnumThreshold /\ "value_counts" \in DOMAIN stats
    THEN MockEnum(name)
    ELSE IF Lower(name) \in {"price", "quantity", "zip_code"}
    THEN MockNumber(name)
    ELSE IF Lower(name) \in {"order_date"}
    THEN MockDate(name)
    ELSE MockUnclassified(name)

\* except Exception as e: the dict returned when the call or json.loads fails.
ApiErrorResponse(name) ==
    [column_name |-> name, pattern |-> "UNCLASSIFIED",
     reasoning |-> "Failed to call LLM due to an API error."]

\* What the service does in one call: generate_content raises ("transport"),
\* response.text is no JSON text ("malformed"), or it is the JSON text of a
\* value ("json").
ServiceFails(svc) == svc.kind \in {"transport", "malformed"}

\* A faulty variant of InferDataPattern: json.loads stands outside the try.
InferDataPatternUncaught(key, svc, name, stats) ==
    IF ~key THEN Dict(MockResponse(name, stats))
    ELSE IF svc.kind = "transport" THEN Dict(ApiErrorResponse(name))
    ELSE IF svc.kind = "malformed" THEN Raised
    ELSE svc.value

\* infer_data_pattern(column_name, column_profile)
InferDataPattern(key, svc, name, stats) ==
    IF ~key THEN Dict(MockResponse(name, stats))
    ELSE IF ServiceFails(svc) THEN Dict(ApiErrorResponse(name))
    ELSE svc.value

-----------------------------------------------------------------------------
(* Inputs of the classifier.                                               *)

ClassifyNames ==
    {"id", "ID", "status", "price", "zip_code", "order_date", "Order_Date", "a"}

\* value_counts with u keys for t values.
CountsFor(u, t) ==
    [i \in 1..u |-> <<NatStr(i), IF i = 1 THEN t - u + 1 ELSE 1>>]
\* Column statistics: 1, 4, 5 or 6 distinct values, all distinct or one
\* repeated; lengths 8..8, 7..8 or 1..1; with and without value_counts.
LengthPairs == {<<8, 8>>, <<7, 8>>, <<1, 1>>}
StatsWithCounts ==
    {[total_count |-> u + extra, unique_count |-> u, min_length |-> l[1],
      max_length |-> l[2], value_counts |-> CountsFor(u, u + extra)] :
       u \in {1, 4, 5, 6}, extra \in {0, 1}, l \in LengthPairs}
StatsWithoutCounts ==
    {[total_count |-> st.total_count, unique_count |-> st.unique_count,
      min_length |-> st.min_length, max_length |-> st.max_length] :
       st \in StatsWithCounts}
ClassifyStats == StatsWithCounts \cup StatsWithoutCounts

\* What the service answers when its text is JSON: an annotation with
\* guidelines, one without a pattern, and a list.
ServiceValues ==
    {Dict([column_name |-> "a", pattern |-> "DATE", reasoning |-> "dates",
           generation_guidelines |->
             [date_format |-> MDY,
              min_date |-> <<"0", "2", "2", "9", "2", "0", "2", "4">>,
              max_date |-> <<"0", "3", "0", "1", "2", "0", "2", "4">>]]),
     Dict([column_name |-> "a", reasoning |-> "none"]),
     JsonList}
ServiceOutcomes ==
    {[kind |-> "transport"], [kind |-> "malformed"]}
    \cup {[kind |-> "json", value |-> v] : v \in ServiceValues}

-----------------------------------------------------------------------------
(* infer_data_pattern on its own.                                          *)

InitClassify ==
    /\ pc = "infer_call"
    /\ file_state = "ok"
    /\ sheet_rows = <<>>
    /\ layout = <<>>
    /\ data_content = <<>>
    /\ parsed_data = <<>>
    /\ profile = <<>>
    /\ volume = 0
    /\ generated_data = <<>>
    /\ sequence_counters = <<>>
    /\ enum_values = <<>>
    /\ \/ api_key = FALSE /\ service = NoService
       \/ api_key = TRUE /\ service \in ServiceOutcomes
    /\ column_name \in ClassifyNames
    /\ column_profile \in ClassifyStats
    /\ inferred_pattern = NoDict
    /\ inferred_profile = <<>>
    /\ database = NotSaved

\* The end of a call: the value returned, or the exception.
InferEnds(result) ==
    /\ inferred_pattern' = result
    /\ pc' = IF result.t = "raised" THEN "infer_raised" ELSE "infer_returned"
    /\ UNCHANGED <<sheet_rows, file_state, layout, data_content, parsed_data,
                   profile, volume, generated_data, sequence_counters, enum_values,
                   api_key, service, column_name, column_profile,
                   inferred_profile, database>>

\* if not API_KEY: ... return mock_response
MockReturn ==
    /\ pc = "infer_call"
    /\ ~api_key
    /\ InferEnds(InferDataPattern(api_key, service, column_name, column_profile))

\* try: ... return response_json
ServiceReturn ==
    /\ pc = "infer_call"
    /\ api_key
    /\ service.kind = "json"
    /\ InferEnds(InferDataPattern(api_key, service, column_name, column_profile))

\* except Exception: return the UNCLASSIFIED dict
ServiceFailure ==
    /\ pc = "infer_call"
    /\ api_key
    /\ service.kind # "json"
    /\ InferEnds(InferDataPattern(api_key, service, column_name, column_profile))

NextClassify == MockReturn \/ ServiceReturn \/ ServiceFailure

SpecClassify == InitClassify /\ [][NextClassify]_vars

-----------------------------------------------------------------------------
(* Properties of the classifier.                                           *)

ServiceFailed == api_key /\ service.kind \in {"transport", "malformed"}
Returned == pc = "infer_returned"

\* C12 as stated: on a response that is no structured data and on a transport
\* failure, infer_data_pattern does not raise and returns pattern UNCLASSIFIED
\* with reasoning "classification failed".
C12_ReasoningClassificationFailed ==
    /\ pc # "infer_raised"
    /\ (Returned /\ ServiceFailed) =>
         /\ inferred_pattern.t = "dict"
         /\ inferred_pattern.d.pattern = "UNCLASSIFIED"
         /\ inferred_pattern.d.reasoning = "classification failed"

\* C12 as amended: on a response that is no structured data and on a
\* transport failure, infer_data_pattern does not raise and returns the
\* column name, pattern UNCLASSIFIED and the reasoning "Failed to call LLM due
\* to an API error.", and nothing else.
C12_DegradesToUnclassified ==
    /\ pc # "infer_raised"
    /\ (Returned /\ ServiceFailed) =>
         /\ inferred_pattern.t = "dict"
         /\ DOMAIN inferred_pattern.d = {"column_name", "pattern", "reasoning"}
         /\ inferred_pattern.d.column_name = column_name
         /\ inferred_pattern.d.pattern = "UNCLASSIFIED"
         /\ inferred_pattern.d.reasoning = "Failed to call LLM due to an API error."

\* The call has returned after a response that is no JSON text.
C12_Witness ==
    Returned /\ api_key /\ service.kind = "malformed" /\ inferred_pattern.t = "dict"

\* The rules on the profile alone, and the names the mock rules know.
SequenceByProfile(stats) ==
    stats.unique_count = stats.total_count /\ stats.min_length = 8 /\ stats.max_length = 8
EnumByProfile(stats) ==
    stats.unique_count < 5 /\ "value_counts" \in DOMAIN stats
PatternByProfile(stats) ==
    IF SequenceByProfile(stats) THEN "SEQUENCE"
    ELSE IF EnumByProfile(stats) THEN "ENUM"
    ELSE "UNCLASSIFIED"
EnumNames == {"product_type", "currency", "status"}
NumberNames == {"price", "quantity", "zip_code"}
DateNames == {"order_date"}
KnownNames == {"id"} \cup EnumNames \cup NumberNames \cup DateNames
Fallback == Returned /\ ~api_key

\* C15 as stated: the fallback classifier returns SEQUENCE, ENUM or
\* UNCLASSIFIED by the profile alone, whatever the column name.
C15_FallbackByProfileOnly ==
    Fallback => inferred_pattern.d.pattern = PatternByProfile(column_profile)

\* C15 as amended: the fallback classifier decides by the lower-cased column
\* name and the profile, first rule that applies: SEQUENCE for the name id or
\* a SEQUENCE profile; ENUM for product_type, currency, status or an ENUM
\* profile; NUMBER for price, quantity, zip_code; DATE for order_date;
\* otherwise UNCLASSIFIED.  For every other name the result is by the profile
\* alone.
C15_FallbackByNameAndProfile ==
    Fallback =>
      LET name == Lower(column_name)
          stats == column_profile
          pattern == inferred_pattern.d.pattern
          sequence == name = "id" \/ SequenceByProfile(stats)
          enum == name \in EnumNames \/ EnumByProfile(stats)
      IN  /\ inferred_pattern.t = "dict"
          /\ inferred_pattern.d.column_name = column_name
          /\ sequence => pattern = "SEQUENCE"
          /\ (~sequence /\ enum) => pattern = "ENUM"
          /\ (~sequence /\ ~enum /\ name \in NumberNames) => pattern = "NUMBER"
          /\ (~sequence /\ ~enum /\ name \in DateNames) => pattern = "DATE"
          /\ (~sequence /\ ~enum /\ name \notin NumberNames \cup DateNames) =>
               pattern = "UNCLASSIFIED"
          /\ name \notin KnownNames => pattern = PatternByProfile(stats)

\* The name ID has made a SEQUENCE of a profile that by itself is an ENUM
C15_Witness ==
    /\ Fallback
    /\ inferred_pattern.d.pattern = "SEQUENCE"
    /\ column_name = "ID"
    /\ ~SequenceByProfile(column_profile)
    /\ EnumByProfile(column_profile)

\* C16 as stated: the fallback classifier never returns generation_guidelines.
C16_FallbackWithoutGuidelines ==
    Fallback => "generation_guidelines" \notin DOMAIN inferred_pattern.d

\* C16 as amended: the fallback classifier returns generation_guidelines
\* exactly with the patterns NUMBER and DATE, that is for the names price,
\* quantity, zip_code and order_date when neither the SEQUENCE nor the ENUM
\* rule applies, and for no other name.
C16_GuidelinesOnlyForNumberAndDate ==
    Fallback =>
      LET guided == "generation_guidelines" \in DOMAIN inferred_pattern.d
      IN  /\ guided <=> inferred_pattern.d.pattern \in {"NUMBER", "DATE"}
          /\ guided <=>
               /\ Lower(column_name) \in NumberNames \cup DateNames
               /\ ~SequenceByProfile(column_profile)
               /\ ~EnumByProfile(column_profile)
          /\ (guided /\ inferred_pattern.d.pattern = "DATE") =>
               DOMAIN inferred_pattern.d.generation_guidelines
                 = {"date_format", "min_date", "max_date"}
          /\ (guided /\ inferred_pattern.d.pattern = "NUMBER") =>
               DOMAIN inferred_pattern.d.generation_guidelines
                 = {"number_type", "min_value", "max_value", "decimal_places"}

\* The fallback has returned guidelines for the column price.
C16_Witness ==
    /\ Fallback
    /\ column_name = "price"
    /\ "generation_guidelines" \in DOMAIN inferred_pattern.d

\* The ENUM columns whose value_counts is empty or absent.
EmptyEnums ==
    {c \in ColumnsWith("ENUM") :
       \/ "value_counts" \notin DOMAIN profile[c][2]
       \/ profile[c][2].value_counts = <<>>}

\* C20: when an ENUM column has an empty or absent value_counts, the enum
\* value table holds an entry for it, the empty list, so the default of the
\* lookup is not used; every pass of the loop raises, no record is ever
\* produced, and the invocation returns only when volume is 0, with the empty
\* list.
C20_EmptyEnumAborts ==
    \A c \in EmptyEnums :
      /\ DictHas(enum_values, profile[c][1])
      /\ DictGet(enum_values, profile[c][1], <<<<>>>>) = <<>>
      /\ generated_data = <<>>
      /\ pc = "gen_returned" => volume = 0
      /\ (pc = "gen_loop" /\ volume >= 1) =>
           \A o \in RecordOutcomes(profile, 1, <<>>, sequence_counters,
                                   enum_values) : o.raised

\* An invocation for at least one record has raised at its second column, an
\* ENUM without value_counts, after the first column had its value.
C20_Witness ==
    /\ pc = "gen_raised"
    /\ volume >= 1
    /\ Len(profile) = 2
    /\ 2 \in EmptyEnums
    /\ "value_counts" \notin DOMAIN profile[2][2]
    /\ PatternOf(profile[1][2]) = "SEQUENCE"

-----------------------------------------------------------------------------
(* generate_synthetic_data for one record of a column without guidelines.  *)

\* NUMBER and DATE columns as the fallback classifier cannot annotate them
\* but profiles may hold them: no generation_guidelines.
NumberPlain(min_length, max_length) ==
    [pattern |-> "NUMBER", min_length |-> min_length, max_length |-> max_length]
DatePlain == [pattern |-> "DATE", min_length |-> 8, max_length |-> 8]
PlainColumns == {NumberPlain(1, 1), NumberPlain(5, 5), NumberPlain(4, 5), DatePlain}
PlainProfiles == {<<<<"c1", stats>>>> : stats \in PlainColumns}

\* The call, for no record or one.
PlainCall ==
    /\ pc = "gen_call"
    /\ \E prof \in PlainProfiles, vol \in 0..1 :
         /\ profile' = prof
         /\ volume' = vol
         /\ sequence_counters' = SequenceCountersInit(prof)
         /\ enum_values' = EnumValuesInit(prof)
    /\ generated_data' = <<>>
    /\ pc' = "gen_loop"
    /\ UNCHANGED <<sheet_rows, file_state, layout, data_content, parsed_data>>
    /\ UNCHANGED classifier_vars

NextPlain == PlainCall \/ GenerateRecord \/ GenerateReturn

SpecPlain == InitGen /\ [][NextPlain]_vars

-----------------------------------------------------------------------------
(* Properties of the generator without guidelines.                         *)

Unguided(pattern) ==
    {c \in ColumnsWith(pattern) :
       "generation_guidelines" \notin DOMAIN profile[c][2]}

\* C17 as stated: for a NUMBER column without generation_guidelines, every
\* generated value is a string of decimal digits whose length lies in
\* [min_length, max_length] of the column profile.
C17_DigitsOfProfileLength ==
    \A c \in Unguided("NUMBER") :
      \A k \in DOMAIN generated_data :
        LET v == ValueAt(k, c)
        IN  /\ v # <<>> /\ AllDigits(v)
            /\ profile[c][2].min_length <= Len(v)
            /\ Len(v) <= profile[c][2].max_length

\* C17 as amended: for a NUMBER column without generation_guidelines, every
\* generated value is the decimal string, without sign or leading zero, of an
\* integer from 0 to 100, whatever min_length and max_length are.
C17_IntegerUpToHundred ==
    \A c \in Unguided("NUMBER") :
      \A k \in DOMAIN generated_data :
        LET v == ValueAt(k, c)
        IN  /\ v # <<>> /\ AllDigits(v)
            /\ Len(v) = 1 \/ v[1] # "0"
            /\ DigitsValue(v) <= 100

\* A column whose values have 4 or 5 characters has received "100".
C17_Witness ==
    /\ pc = "gen_returned"
    /\ Len(generated_data) = 1
    /\ \E c \in Unguided("NUMBER") :
         /\ profile[c][2].min_length = 4
         /\ ValueAt(1, c) = <<"1", "0", "0">>

\* The number written at positions a..b of a string of digits.
Digits(v, a, b) == DigitsValue(SubSeq(v, a, b))

LastDay(year, month) ==
    IF month \in {4, 6, 9, 11} THEN 30
    ELSE IF month # 2 THEN 31
    ELSE IF year % 4 = 0 THEN 29 ELSE 28

-----------------------------------------------------------------------------
(* agent_pipeline.py: a whole run, and generation from the saved profile.  *)

\* {**stats, **inferred_pattern}
MergeDicts(stats, inferred) ==
    [k \in DOMAIN stats \cup DOMAIN inferred |->
       IF k \in DOMAIN inferred THEN inferred[k] ELSE stats[k]]

\* save_profile: the row of the layout holds the JSON text of the profile,
\* kept as the mapping the text denotes.
SaveProfile(prof) == [saved |-> TRUE, profile |-> prof]

\* The lines joined by "\n".
RECURSIVE JoinLines(_)
JoinLines(ls) ==
    IF ls = <<>> THEN <<>>
    ELSE IF Len(ls) = 1 THEN Head(ls)
    ELSE Head(ls) \o <<"\n">> \o JoinLines(Tail(ls))

\* Worksheets of the runs: columns of width 1 named order_date, id and a; a
\* header alone; a row without length specifier; and worksheets with the
\* names column only.
WidthOne == CellStr(<<"X", "(", "1", ")">>)
RunSheets ==
    {<<HeaderRow, <<CellStr("order_date"), WidthOne>>>>,
     <<HeaderRow, <<CellStr("id"), WidthOne>>, <<CellStr("order_date"), CellNum(100)>>>>,
     <<HeaderRow, <<CellStr("a"), WidthOne>>>>,
     <<HeaderRow>>,
     <<HeaderRow, <<CellStr("order_date"), CellNone>>>>,
     <<<<CellStr("Field Name")>>, <<CellStr("order_date")>>>>,
     <<<<CellStr("Field Name")>>>>}

\* Data texts of the runs: empty; five, six and three lines of one
\* character; five lines of two characters; one line of three characters.
FiveChars == <<"1", "2", "3", "4", "5">>
RunTexts ==
    {<<>>,
     JoinLines([i \in 1..5 |-> <<FiveChars[i]>>]),
     JoinLines([i \in 1..6 |-> <<FiveChars[IF i = 6 THEN 1 ELSE i]>>]),
     JoinLines([i \in 1..3 |-> <<FiveChars[i]>>]),
     JoinLines([i \in 1..5 |-> <<"x", FiveChars[i]>>]),
     <<"1", "2", "3">>}

\* What the service answers in the runs: the outcomes of the classifier's
\* inputs, and NUMBER annotations for integers in [1, 2] and in [2, 1].
RunServices ==
    ServiceOutcomes \cup
    {[kind |-> "json",
      value |-> Dict([column_name |-> "a", pattern |-> "NUMBER",
                      reasoning |-> "numbers",
                      generation_guidelines |->
                        [number_type |-> "INTEGER", min_value |-> lo,
                         max_value |-> 300 - lo]])] : lo \in {100, 200}}

InitRun ==
    /\ pc = "parse_layout"
    /\ file_state \in {"ok", "missing", "corrupt"}
    /\ sheet_rows \in RunSheets
    /\ data_content \in RunTexts
    /\ api_key \in BOOLEAN
    /\ layout = <<>>
    /\ parsed_data = <<>>
    /\ profile = <<>>
    /\ volume = 0
    /\ generated_data = <<>>
    /\ sequence_counters = <<>>
    /\ enum_values = <<>>
    /\ service = NoService
    /\ column_name = ""
    /\ column_profile = NoDict
    /\ inferred_pattern = NoDict
    /\ inferred_profile = <<>>
    /\ database = NotSaved

\* parse_layout_node: parse_xls_layout raises FileNotFoundError and the run
\* ends with it.
RunLayoutNotFound ==
    /\ pc = "parse_layout"
    /\ file_state = "missing"
    /\ pc' = "halted"
    /\ UNCHANGED <<sheet_rows, file_state, layout, data_content, parsed_data,
                   profile, volume, generated_data, sequence_counters, enum_values>>
    /\ UNCHANGED classifier_vars

\* parse_layout_node: row[1] of a one-column worksheet raises IndexError and
\* the run ends with it.
RunLayoutIndexError ==
    /\ pc = "parse_layout"
    /\ file_state = "ok"
    /\ ParseXlsLayoutRaises(sheet_rows)
    /\ pc' = "halted"
    /\ UNCHANGED <<sheet_rows, file_state, layout, data_content, parsed_data,
                   profile, volume, generated_data, sequence_counters, enum_values>>
    /\ UNCHANGED classifier_vars

\* parse_layout_node: the layout of the worksheet, [] for a workbook that
\* does not load.
RunParseLayout ==
    /\ pc = "parse_layout"
    /\ \/ file_state = "corrupt" /\ layout' = <<>>
       \/ /\ file_state = "ok"
          /\ ~ParseXlsLayoutRaises(sheet_rows)
          /\ layout' = ParseXlsLayoutRows(sheet_rows)
    /\ pc' = "parse_data"
    /\ UNCHANGED <<sheet_rows, file_state, data_content, parsed_data, profile,
                   volume, generated_data, sequence_counters, enum_values>>
    /\ UNCHANGED classifier_vars

\* parse_data_node
RunParseData ==
    /\ pc = "parse_data"
    /\ parsed_data' = ParseFixedLengthData(data_content, layout)
    /\ pc' = "profile_data"
    /\ UNCHANGED <<sheet_rows, file_state, layout, data_content, profile, volume,
                   generated_data, sequence_counters, enum_values>>
    /\ UNCHANGED classifier_vars

\* profile_data_node
RunProfileData ==
    /\ pc = "profile_data"
    /\ profile' = ProfileData(parsed_data)
    /\ pc' = "infer_patterns"
    /\ UNCHANGED <<sheet_rows, file_state, layout, data_content, parsed_data,
                   volume, generated_data, sequence_counters, enum_values>>
    /\ UNCHANGED classifier_vars

\* The column the loop of infer_patterns_node is at.
NextColumn == Len(inferred_profile) + 1

\* What the service does in the call for the next column.
ServiceAtCall == IF api_key THEN RunServices ELSE {NoService}

\* A faulty variant of InferPatternsColumn: the annotation is also written
\* into the profile the node was given.
InferPatternsInPlace ==
    /\ pc = "infer_patterns"
    /\ NextColumn <= Len(profile)
    /\ \E svc \in ServiceAtCall :
         LET column == profile[NextColumn][1]
             stats == profile[NextColumn][2]
             result == InferDataPattern(api_key, svc, column, stats)
         IN  /\ result.t = "dict"
             /\ service' = svc
             /\ column_name' = column
             /\ column_profile' = stats
             /\ inferred_pattern' = result
             /\ inferred_profile' =
                  DictPut(inferred_profile, column, MergeDicts(stats, result.d))
             /\ profile' = DictPut(profile, column, MergeDicts(stats, result.d))
    /\ UNCHANGED <<pc, sheet_rows, file_state, layout, data_content, parsed_data,
                   volume, generated_data, sequence_counters, enum_values,
                   api_key, database>>

\* infer_patterns_node, one pass of the loop: the call of infer_data_pattern
\* and inferred_profile[column] = {**stats, **inferred_pattern}.
InferPatternsColumn ==
    /\ pc = "infer_patterns"
    /\ NextColumn <= Len(profile)
    /\ \E svc \in ServiceAtCall :
         LET column == profile[NextColumn][1]
             stats == profile[NextColumn][2]
             result == InferDataPattern(api_key, svc, column, stats)
         IN  /\ result.t = "dict"
             /\ service' = svc
             /\ column_name' = column
             /\ column_profile' = stats
             /\ inferred_pattern' = result
             /\ inferred_profile' =
                  DictPut(inferred_profile, column, MergeDicts(stats, result.d))
    /\ UNCHANGED <<pc, sheet_rows, file_state, layout, data_content, parsed_data,
                   profile, volume, generated_data, sequence_counters, enum_values,
                   api_key, database>>

\* infer_patterns_node, one pass of the loop: infer_data_pattern returns a
\* value that is no mapping, ** raises TypeError and the run ends with it.
InferPatternsTypeError ==
    /\ pc = "infer_patterns"
    /\ NextColumn <= Len(profile)
    /\ \E svc \in ServiceAtCall :
         LET column == profile[NextColumn][1]
             stats == profile[NextColumn][2]
             result == InferDataPattern(api_key, svc, column, stats)
         IN  /\ result.t # "dict"
             /\ service' = svc
             /\ column_name' = column
             /\ column_profile' = stats
             /\ inferred_pattern' = result
    /\ pc' = "halted"
    /\ UNCHANGED <<sheet_rows, file_state, layout, data_content, parsed_data,
                   profile, volume, generated_data, sequence_counters, enum_values,
                   api_key, inferred_profile, database>>

\* infer_patterns_node: return {"profile": inferred_profile}
InferPatternsNode ==
    /\ pc = "infer_patterns"
    /\ NextColumn > Len(profile)
    /\ pc' = "persist_profile"
    /\ UNCHANGED <<sheet_rows, file_state, layout, data_content, parsed_data,
                   profile, volume, generated_data, sequence_counters, enum_values>>
    /\ UNCHANGED classifier_vars

\* persist_profile_node: save_profile(layout_name, state['profile'])
PersistProfileNode ==
    /\ pc = "persist_profile"
    /\ database' = SaveProfile(inferred_profile)
    /\ pc' = "finish"
    /\ UNCHANGED <<sheet_rows, file_state, layout, data_content, parsed_data,
                   profile, volume, generated_data, sequence_counters, enum_values,
                   api_key, service, column_name, column_profile,
                   inferred_pattern, inferred_profile>>

\* finish_node
FinishNode ==
    /\ pc = "finish"
    /\ pc' = "finished"
    /\ UNCHANGED <<sheet_rows, file_state, layout, data_content, parsed_data,
                   profile, volume, generated_data, sequence_counters, enum_values>>
    /\ UNCHANGED classifier_vars

\* generate_synthetic_data(load_profile(layout_name), volume): the parameter
\* profile is bound to the saved profile.
GenerateFromSaved ==
    /\ pc = "finished"
    /\ \E vol \in 0..MaxVolume : volume' = vol
    /\ profile' = database.profile
    /\ sequence_counters' = SequenceCountersInit(database.profile)
    /\ enum_values' = EnumValuesInit(database.profile)
    /\ generated_data' = <<>>
    /\ pc' = "gen_loop"
    /\ UNCHANGED <<sheet_rows, file_state, layout, data_content, parsed_data>>
    /\ UNCHANGED classifier_vars

NextRun ==
    \/ RunLayoutNotFound
    \/ RunLayoutIndexError
    \/ RunParseLayout
    \/ RunParseData
    \/ RunProfileData
    \/ InferPatternsColumn
    \/ InferPatternsTypeError
    \/ InferPatternsNode
    \/ PersistProfileNode
    \/ FinishNode
    \/ GenerateFromSaved
    \/ GenerateRecord
    \/ GenerateRaise
    \/ GenerateReturn

SpecRun == InitRun /\ [][NextRun]_vars

-----------------------------------------------------------------------------
(* Properties of the run.                                                  *)

\* The classifier was unavailable, or the service failed or gave a text that
\* is no JSON, in the last call made.
ClassifierDegraded == ~api_key \/ service = NoService \/ ServiceFails(service)

\* What holds when finish has run: every step before it has, in order.
FinishedInOrder ==
    /\ parsed_data = ParseFixedLengthData(data_content, layout)
    /\ DictKeys(inferred_profile) = DictKeys(ProfileData(parsed_data))
    /\ database = SaveProfile(inferred_profile)
    /\ parsed_data = <<>> => database.profile = <<>>

\* C13: with the classifier unavailable, failing or unparseable, a run halts
\* only when the layout source is not found; a run that has reached finish
\* has parsed the layout, decoded the data, profiled, classified every
\* column and saved the result in that order, and when no data line survived
\* the saved profile is the empty mapping.
C13_OnlyMissingLayoutHalts ==
    /\ (pc = "halted" /\ ClassifierDegraded) => file_state = "missing"
    /\ file_state = "missing" => pc \in {"parse_layout", "halted"}
    /\ pc = "finished" => FinishedInOrder

\* The same for worksheets with two columns.
C13_TwoColumnSheets ==
    ~ParseXlsLayoutRaises(sheet_rows) => C13_OnlyMissingLayoutHalts

\* C11: no step changes an input it did not produce.  parse_data_node leaves
\* the layout as it was, profile_data_node the decoded records, the steps of
\* infer_patterns_node and the nodes after it the profile they were given,
\* and the steps of generate_synthetic_data the profile mapping, which stays
\* the saved one with its value_counts and generation_guidelines.
C11_InputsNotMutated ==
    [][/\ pc = "parse_data" => layout' = layout
       /\ pc = "profile_data" => parsed_data' = parsed_data /\ layout' = layout
       /\ pc \in {"infer_patterns", "persist_profile", "finish"} =>
            /\ profile' = profile
            /\ parsed_data' = parsed_data
       /\ pc = "gen_loop" => profile' = profile /\ profile' = database'.profile]_vars

\* Generation has returned records from a saved profile that holds a column
\* with observed values and generation guidelines, after a run that decoded
\* records with a layout.
C11_Witness ==
    /\ pc = "gen_returned"
    /\ volume >= 1
    /\ layout # <<>>
    /\ parsed_data # <<>>
    /\ profile = database.profile
    /\ \E c \in DOMAIN profile :
         /\ "generation_guidelines" \in DOMAIN profile[c][2]
         /\ profile[c][2].value_counts # <<>>

\* C19: in a run without API key, a column of the saved profile has pattern
\* DATE only under the name order_date, its date_format is "MMDDYYYY", and
\* generation from the saved profile puts "00000000" in that column of every
\* record, which is no date from 01012023 to 12312023.
C19_FallbackDateIsZeros ==
    (~api_key /\ pc \in {"gen_loop", "gen_returned", "gen_raised"}) =>
      \A c \in ColumnsWith("DATE") :
        /\ Lower(profile[c][1]) = "order_date"
        /\ profile[c][2].generation_guidelines.date_format =
             <<"M", "M", "D", "D", "Y", "Y", "Y", "Y">>
        /\ \A k \in DOMAIN generated_data :
             /\ ValueAt(k, c) = <<"0", "0", "0", "0", "0", "0", "0", "0">>
             /\ Digits(ValueAt(k, c), 1, 2) \notin 1..12

\* A run without API key has generated two records from a saved profile with
\* a SEQUENCE column and a DATE column.
C19_Witness ==
    /\ ~api_key
    /\ pc = "gen_returned"
    /\ Len(generated_data) >= 2
    /\ ColumnsWith("DATE") # {}
    /\ ColumnsWith("SEQUENCE") # {}

-----------------------------------------------------------------------------
(* generate_synthetic_data for SEQUENCE columns, past the column width.    *)

\* SEQUENCE columns with max_length 1 and 2, and without max_length.
Sequence1 == [pattern |-> "SEQUENCE", min_length |-> 1, max_length |-> 1]
SequenceColumns == {Sequence1, Sequence2, SequenceBare}
SequenceProfiles ==
    {<<<<"c1", s1>>>> : s1 \in SequenceColumns}
    \cup {<<<<"c2", s1>>, <<"c1", s2>>>> : s1 \in SequenceColumns,
                                           s2 \in SequenceColumns}

\* The call, for up to MaxCount records.
SequenceCall ==
    /\ pc = "gen_call"
    /\ \E prof \in SequenceProfiles, vol \in 0..MaxCount :
         /\ profile' = prof
         /\ volume' = vol
         /\ sequence_counters' = SequenceCountersInit(prof)
         /\ enum_values' = EnumValuesInit(prof)
    /\ generated_data' = <<>>
    /\ pc' = "gen_loop"
    /\ UNCHANGED <<sheet_rows, file_state, layout, data_content, parsed_data>>
    /\ UNCHANGED classifier_vars

NextSequence == SequenceCall \/ GenerateRecord \/ GenerateReturn

SpecSequence == InitGen /\ [][NextSequence]_vars

\* C21: a SEQUENCE value is never cut to the column width.  Record k holds
\* the digits of k, zero-padded, in a string of length max(L, number of
\* decimal digits of k) with L the max_length of the column (0 when absent);
\* for k >= 10^L the value is longer than L; and the values of a run are
\* pairwise distinct.
C21_SequenceNeverTruncated ==
    \A c \in ColumnsWith("SEQUENCE") :
      \A k \in DOMAIN generated_data :
        LET v == ValueAt(k, c)
            L == Get(profile[c][2], "max_length", 0)
        IN  /\ AllDigits(v)
            /\ DigitsValue(v) = k
            /\ Len(v) = Max(L, DecimalLength(k))
            /\ k >= 10 ^ L => Len(v) > L
            /\ \A j \in DOMAIN generated_data : j # k => ValueAt(j, c) # v

\* A run has returned at least ten records, and the tenth holds "10" in a
\* column whose max_length is 1.
C21_Witness ==
    /\ pc = "gen_returned"
    /\ Len(generated_data) >= 10
    /\ \E c \in ColumnsWith("SEQUENCE") :
         /\ Get(profile[c][2], "max_length", 0) = 1
         /\ ValueAt(10, c) = <<"1", "0">>

=============================================================================
